---- MODULE Spec2Model ----
(***************************************************************************)
(* Ice Breakun backend: the Hono routes of server/index.ts over the Prisma *)
(* repositories of server/db.ts and the schema of prisma/schema.prisma.    *)
(*                                                                         *)
(* Spec handles one request at a time: an action is a whole handler, from  *)
(* the parsing of the request to the response.  SpecRace splits a handler  *)
(* at its await of the repository call, so that the statements of two      *)
(* requests in flight interleave in either order.                          *)
(***************************************************************************)
EXTENDS Integers, Sequences, FiniteSets, TLC

(***************************************************************************)
(* Bounds of the model                                                     *)
(***************************************************************************)
MaxUserId == 2
MaxMessageId == 2
MaxClock == 1
MaxCalls == 3
MaxElapsed == 8

\* Client connections: Spec serves Main alone, SpecRace serves both.
Main == "c1"
Clients == {"c1", "c2"}

Names == {"Alice", "Bob"}
Emails == {"alice@example.com", "bob@example.com"}
Contents == {"hi", "yo"}

(***************************************************************************)
(* JSON / JavaScript values that reach the handlers                        *)
(***************************************************************************)
Undefined == [t |-> "undefined", s |-> "", n |-> 0]
NaN == [t |-> "NaN", s |-> "", n |-> 0]
Str(x) == [t |-> "string", s |-> x, n |-> 0]
Num(k) == [t |-> "number", s |-> "", n |-> k]

\* JavaScript's !v
Falsy(v) ==
    \/ v.t = "undefined"
    \/ v.t = "NaN"
    \/ v.t = "string" /\ v.s = ""
    \/ v.t = "number" /\ v.n = 0

(***************************************************************************)
(* parseInt(c.req.param(...)): a path parameter is a sequence of           *)
(* characters; leading white space and a sign are skipped, then the        *)
(* longest run of decimal digits is read; no digit at all gives NaN.       *)
(* (The parameters of the model carry no 0x prefix.)                       *)
(***************************************************************************)
DigitVal ==
    "0" :> 0 @@ "1" :> 1 @@ "2" :> 2 @@ "3" :> 3 @@ "4" :> 4 @@
    "5" :> 5 @@ "6" :> 6 @@ "7" :> 7 @@ "8" :> 8 @@ "9" :> 9

IsDigit(ch) == ch \in DOMAIN DigitVal

RECURSIVE SkipSpace(_)
SkipSpace(p) ==
    IF p # <<>> /\ Head(p) = " " THEN SkipSpace(Tail(p)) ELSE p

RECURSIVE DigitRun(_, _)
DigitRun(p, acc) ==
    IF p # <<>> /\ IsDigit(Head(p))
    THEN DigitRun(Tail(p), acc * 10 + DigitVal[Head(p)])
    ELSE acc

parseInt(param) ==
    LET p == SkipSpace(param)
        neg == p # <<>> /\ Head(p) = "-"
        q == IF p # <<>> /\ Head(p) \in {"-", "+"} THEN Tail(p) ELSE p
    IN  IF q = <<>> \/ ~IsDigit(Head(q))
        THEN NaN
        ELSE Num(IF neg THEN 0 - DigitRun(q, 0) ELSE DigitRun(q, 0))

\* The path parameters the clients send: stored and unstored ids, a
\* non-numeric value and a value with a numeric prefix.
PathParams == {<<"1">>, <<"2">>, <<"3">>, <<"a", "b", "c">>, <<"2", "x">>}

(***************************************************************************)
(* State                                                                   *)
(***************************************************************************)
VARIABLES
    users,        \* rows of table User
    messages,     \* rows of table Message
    userSeq,      \* autoincrement sequence of User.id
    messageSeq,   \* autoincrement sequence of Message.id
    now,          \* logical clock read by now() / @updatedAt
    client,       \* per client: the request whose repository call is in flight
    out,          \* the response sent by the last step, if it sent one
    before,       \* history: the database before the step that sent `out`
    trace,        \* history: the responses to the scripted scenario so far
    message,      \* user-management component: the notification text, "" when hidden
    messageType,  \* user-management component: 'success' or 'error'
    timers,       \* the timeouts set by showMessage that have not fired
    elapsed,      \* seconds since the component was mounted
    calls,        \* history: the number of showMessage calls so far
    shown,        \* history: the call that set the notification on display, 0 if none
    cleared       \* history: the timer that fired last and what it cleared

\* the state of the user-management component
ui == <<message, messageType, timers, elapsed, calls, shown, cleared>>

vars == <<users, messages, userSeq, messageSeq, now, client, out, before, trace,
          message, messageType, timers, elapsed, calls, shown, cleared>>

DB == [users |-> users, messages |-> messages,
       userSeq |-> userSeq, messageSeq |-> messageSeq]

\* the database after the migration: both tables empty
EmptyDB == [users |-> {}, messages |-> {}, userSeq |-> 0, messageSeq |-> 0]

(***************************************************************************)
(* Storage: the statements Prisma runs against the schema.  Each is one    *)
(* atomic statement; its result carries the Prisma error code ("OK" when   *)
(* it succeeded), the database after it and the rows it returns.           *)
(***************************************************************************)
NoRows == <<>>

Result(code, db, rows) == [code |-> code, db |-> db, rows |-> rows]

\* model User / model Message: the columns of a row
UserRow(id, name, email, created, updated) ==
    [id |-> id, name |-> name, email |-> email,
     created_at |-> created, updated_at |-> updated]

MessageRow(id, content, user_id, created, updated) ==
    [id |-> id, content |-> content, user_id |-> user_id,
     created_at |-> created, updated_at |-> updated]

UserIds(us) == {u.id : u \in us}
MessageIds(ms) == {m.id : m \in ms}

UserOf(us, id) == CHOOSE u \in us : u.id = id
MessageOf(ms, id) == CHOOSE m \in ms : m.id = id

\* Mutant: the row itself counts as a holder of the email.
EmailTakenByAny(us, email, self) ==
    \E u \in us : u.email = email

\* Mutant: uniqueness is checked when a row is inserted, not when one is updated.
EmailTakenOnInsert(us, email, self) ==
    self = 0 /\ \E u \in us : u.email = email

\* email String @unique: does a row other than `self` hold this email?
EmailTaken(us, email, self) ==
    \E u \in us : u.id # self /\ u.email = email

\* Mutant: the foreign key is not enforced.
ReferencedUserUnchecked(us, user_id) == TRUE

\* @relation(fields: [user_id], references: [id]): the referenced row exists
ReferencedUserExists(us, user_id) == user_id \in UserIds(us)

\* Mutant: no cascade, the messages of the deleted user stay.
CascadeNone(ms, id) == ms

\* Mutant: the cascade matches the message's own id.
CascadeByMessageId(ms, id) == {m \in ms : m.id # id}

\* onDelete: Cascade: the messages that remain when user `id` is deleted
CascadeDelete(ms, id) == {m \in ms : m.user_id # id}

\* include: { user: true }
NoUser == UserRow(0, "", "", 0, 0)

WithUser(m, us) ==
    [id |-> m.id, content |-> m.content, user_id |-> m.user_id,
     created_at |-> m.created_at, updated_at |-> m.updated_at,
     user |-> IF m.user_id \in UserIds(us) THEN UserOf(us, m.user_id) ELSE NoUser]

\* orderBy: { id: 'asc' }
RECURSIVE OrderByIdAsc(_)
OrderByIdAsc(rows) ==
    IF rows = {} THEN <<>>
    ELSE LET first == CHOOSE r \in rows : \A o \in rows : r.id <= o.id
         IN  <<first>> \o OrderByIdAsc(rows \ {first})

\* orderBy: { created_at: 'desc' }: every order the engine may return, rows
\* with equal created_at coming in either order
RECURSIVE OrderByCreatedDesc(_)
OrderByCreatedDesc(rows) ==
    IF rows = {} THEN {<<>>}
    ELSE UNION { { <<r>> \o rest : rest \in OrderByCreatedDesc(rows \ {r}) } :
                 r \in {x \in rows : \A o \in rows : o.created_at <= x.created_at} }

\* A where-argument that is no integer is rejected by the client before any
\* statement runs (a validation error, which carries no Prisma error code).
IsInt(v) == v.t = "number"

\* Mutant: orderBy: { id: 'desc' }
UserFindManyDesc(db) ==
    LET asc == OrderByIdAsc(db.users)
    IN  Result("OK", db, [i \in DOMAIN asc |-> asc[Len(asc) + 1 - i]])

\* prisma.user.findMany({ orderBy: { id: 'asc' } })
UserFindMany(db) == Result("OK", db, OrderByIdAsc(db.users))

\* Mutant: the two columns are written the wrong way round.
UserCreateSwapped(db, t, name, email) ==
    IF \E u \in db.users : u.email = email.s
    THEN [code |-> "P2002", db |-> db, rows |-> <<>>]
    ELSE LET row == [id |-> db.userSeq + 1, name |-> email.s, email |-> name.s,
                     created_at |-> t, updated_at |-> t]
         IN  [code |-> "OK",
              db |-> [db EXCEPT !.users = @ \cup {row}, !.userSeq = @ + 1],
              rows |-> <<row>>]

\* Mutant: the new id is one more than the largest stored id.
UserCreateReusing(db, t, name, email) ==
    IF EmailTaken(db.users, email.s, 0)
    THEN Result("P2002", db, NoRows)
    ELSE LET ids == UserIds(db.users)
             top == IF ids = {} THEN 0 ELSE CHOOSE i \in ids : \A j \in ids : j <= i
             row == UserRow(top + 1, name.s, email.s, t, t)
         IN  Result("OK",
                    [db EXCEPT !.users = @ \cup {row}, !.userSeq = @ + 1],
                    <<row>>)

\* prisma.user.create({ data: { name, email } })
UserCreate(db, t, name, email) ==
    IF EmailTaken(db.users, email.s, 0)
    THEN Result("P2002", db, NoRows)
    ELSE LET row == UserRow(db.userSeq + 1, name.s, email.s, t, t)
         IN  Result("OK",
                    [db EXCEPT !.users = @ \cup {row}, !.userSeq = @ + 1],
                    <<row>>)

\* prisma.user.findUnique({ where: { id } })
UserFindUnique(db, id) ==
    IF ~IsInt(id) THEN Result("VALIDATION", db, NoRows)
    ELSE IF id.n \in UserIds(db.users)
         THEN Result("OK", db, <<UserOf(db.users, id.n)>>)
         ELSE Result("OK", db, NoRows)

\* Mutant: the update leaves updated_at as it was.
UpdatedUserUnstamped(u, t, name, email) ==
    UserRow(u.id,
            IF name.t = "string" THEN name.s ELSE u.name,
            IF email.t = "string" THEN email.s ELSE u.email,
            u.created_at, u.updated_at)

\* Mutant: the row is replaced, a field that was not supplied becoming empty.
UpdatedUserReplaced(u, t, name, email) ==
    UserRow(u.id, name.s, email.s, u.created_at, t)

\* the row after update({ data }): only the supplied fields change, and
\* @updatedAt stamps the row
UpdatedUser(u, t, name, email) ==
    UserRow(u.id,
            IF name.t = "string" THEN name.s ELSE u.name,
            IF email.t = "string" THEN email.s ELSE u.email,
            u.created_at, t)

\* Mutant: the name is written before the email is found to collide.
UserUpdateNameFirst(db, t, id, name, email) ==
    IF ~IsInt(id) THEN Result("VALIDATION", db, NoRows)
    ELSE IF id.n \notin UserIds(db.users) THEN Result("P2025", db, NoRows)
    ELSE LET old == UserOf(db.users, id.n)
             row == UpdatedUser(old, t, name, email)
             named == UpdatedUser(old, t, name, Undefined)
         IN  IF email.t = "string" /\ EmailTaken(db.users, email.s, id.n)
             THEN Result("P2002", [db EXCEPT !.users = (@ \ {old}) \cup {named}], NoRows)
             ELSE Result("OK",
                         [db EXCEPT !.users = (@ \ {old}) \cup {row}],
                         <<row>>)

\* prisma.user.update({ where: { id }, data })
UserUpdate(db, t, id, name, email) ==
    IF ~IsInt(id) THEN Result("VALIDATION", db, NoRows)
    ELSE IF id.n \notin UserIds(db.users) THEN Result("P2025", db, NoRows)
    ELSE IF email.t = "string" /\ EmailTaken(db.users, email.s, id.n)
         THEN Result("P2002", db, NoRows)
    ELSE LET old == UserOf(db.users, id.n)
             row == UpdatedUser(old, t, name, email)
         IN  Result("OK",
                    [db EXCEPT !.users = (@ \ {old}) \cup {row}],
                    <<row>>)

\* prisma.user.delete({ where: { id } })
UserDelete(db, id) ==
    IF ~IsInt(id) THEN Result("VALIDATION", db, NoRows)
    ELSE IF id.n \notin UserIds(db.users) THEN Result("P2025", db, NoRows)
    ELSE Result("OK",
                [db EXCEPT !.users = @ \ {UserOf(db.users, id.n)},
                           !.messages = CascadeDelete(@, id.n)],
                NoRows)

\* prisma.message.findMany({ include: { user: true }, orderBy: { created_at: 'desc' } })
MessageFindMany(db) ==
    { Result("OK", db, [i \in DOMAIN ord |-> WithUser(ord[i], db.users)]) :
      ord \in OrderByCreatedDesc(db.messages) }

\* prisma.message.findMany({ where: { user_id }, ... })
MessageFindManyByUser(db, user_id) ==
    IF ~IsInt(user_id) THEN {Result("VALIDATION", db, NoRows)}
    ELSE { Result("OK", db, [i \in DOMAIN ord |-> WithUser(ord[i], db.users)]) :
           ord \in OrderByCreatedDesc({m \in db.messages : m.user_id = user_id.n}) }

\* prisma.message.findUnique({ where: { id }, include: { user: true } })
MessageFindUnique(db, id) ==
    IF ~IsInt(id) THEN Result("VALIDATION", db, NoRows)
    ELSE IF id.n \in MessageIds(db.messages)
         THEN Result("OK", db, <<WithUser(MessageOf(db.messages, id.n), db.users)>>)
         ELSE Result("OK", db, NoRows)

\* prisma.message.create({ data: { content, user_id }, include: { user: true } })
MessageCreate(db, t, content, user_id) ==
    IF ~IsInt(user_id) THEN Result("VALIDATION", db, NoRows)
    ELSE IF ~ReferencedUserExists(db.users, user_id.n)
         THEN Result("P2003", db, NoRows)
    ELSE LET row == MessageRow(db.messageSeq + 1, content.s, user_id.n, t, t)
         IN  Result("OK",
                    [db EXCEPT !.messages = @ \cup {row}, !.messageSeq = @ + 1],
                    <<WithUser(row, db.users)>>)

\* Mutant: the id of the message is written into its user_id.
MessageUpdateOwner(db, t, id, content) ==
    IF ~IsInt(id) THEN Result("VALIDATION", db, NoRows)
    ELSE IF id.n \notin MessageIds(db.messages) THEN Result("P2025", db, NoRows)
    ELSE LET old == MessageOf(db.messages, id.n)
             row == MessageRow(old.id, content.s, id.n, old.created_at, t)
         IN  Result("OK",
                    [db EXCEPT !.messages = (@ \ {old}) \cup {row}],
                    <<WithUser(row, db.users)>>)

\* Mutant: a row already updated at this clock value is not updated again (a
\* write conflict).
MessageUpdateOnce(db, t, id, content) ==
    IF ~IsInt(id) THEN Result("VALIDATION", db, NoRows)
    ELSE IF id.n \notin MessageIds(db.messages) THEN Result("P2025", db, NoRows)
    ELSE LET old == MessageOf(db.messages, id.n)
             row == MessageRow(old.id, content.s, old.user_id, old.created_at, t)
         IN  IF old.updated_at = t /\ old.created_at < t
             THEN Result("P2034", db, NoRows)
             ELSE Result("OK",
                         [db EXCEPT !.messages = (@ \ {old}) \cup {row}],
                         <<WithUser(row, db.users)>>)

\* Mutant: the update has no where clause, every message takes the content.
MessageUpdateEvery(db, t, id, content) ==
    IF ~IsInt(id) THEN Result("VALIDATION", db, NoRows)
    ELSE IF id.n \notin MessageIds(db.messages) THEN Result("P2025", db, NoRows)
    ELSE LET old == MessageOf(db.messages, id.n)
             row == MessageRow(old.id, content.s, old.user_id, old.created_at, t)
         IN  Result("OK",
                    [db EXCEPT !.messages =
                        {MessageRow(m.id, content.s, m.user_id, m.created_at, t) : m \in @}],
                    <<WithUser(row, db.users)>>)

\* prisma.message.update({ where: { id }, data: { content }, include: { user: true } })
MessageUpdate(db, t, id, content) ==
    IF ~IsInt(id) THEN Result("VALIDATION", db, NoRows)
    ELSE IF id.n \notin MessageIds(db.messages) THEN Result("P2025", db, NoRows)
    ELSE LET old == MessageOf(db.messages, id.n)
             row == MessageRow(old.id, content.s, old.user_id, old.created_at, t)
         IN  Result("OK",
                    [db EXCEPT !.messages = (@ \ {old}) \cup {row}],
                    <<WithUser(row, db.users)>>)

\* prisma.message.delete({ where: { id } })
MessageDelete(db, id) ==
    IF ~IsInt(id) THEN Result("VALIDATION", db, NoRows)
    ELSE IF id.n \notin MessageIds(db.messages) THEN Result("P2025", db, NoRows)
    ELSE Result("OK",
                [db EXCEPT !.messages = @ \ {MessageOf(db.messages, id.n)}],
                NoRows)

(***************************************************************************)
(* Data Access Layer (server/db.ts): each repository method runs one       *)
(* statement and renames the Prisma codes it knows; any other error is     *)
(* rethrown as it is.                                                      *)
(***************************************************************************)
Rename(r, from, to) == IF r.code = from THEN [r EXCEPT !.code = to] ELSE r

getAllUsers(db) == UserFindMany(db)

\* Mutant: the P2002 of the insert is rethrown as it is.
createUserUnmapped(db, t, name, email) == UserCreate(db, t, name, email)

createUser(db, t, name, email) ==
    Rename(UserCreate(db, t, name, email), "P2002", "UNIQUE_VIOLATION")

getUserById(db, id) == UserFindUnique(db, id)

updateUser(db, t, id, name, email) ==
    Rename(Rename(UserUpdate(db, t, id, name, email), "P2002", "UNIQUE_VIOLATION"),
           "P2025", "NOT_FOUND")

deleteUser(db, id) == Rename(UserDelete(db, id), "P2025", "NOT_FOUND")

getAllMessages(db) == MessageFindMany(db)

getMessageById(db, id) == MessageFindUnique(db, id)

\* Mutant: the P2003 of the insert is rethrown as it is.
createMessageUnmapped(db, t, content, user_id) == MessageCreate(db, t, content, user_id)

createMessage(db, t, content, user_id) ==
    Rename(MessageCreate(db, t, content, user_id), "P2003", "FOREIGN_KEY_VIOLATION")

updateMessage(db, t, id, content) ==
    Rename(MessageUpdate(db, t, id, content), "P2025", "NOT_FOUND")

\* Mutant: the P2025 of the delete is rethrown as it is.
deleteMessageUnmapped(db, id) == MessageDelete(db, id)

deleteMessage(db, id) == Rename(MessageDelete(db, id), "P2025", "NOT_FOUND")

\* Mutant: the messages of a user that is not stored are an error.
getMessagesByStoredUserId(db, user_id) ==
    IF IsInt(user_id) /\ user_id.n \notin UserIds(db.users)
    THEN {Result("NOT_FOUND", db, NoRows)}
    ELSE MessageFindManyByUser(db, user_id)

getMessagesByUserId(db, user_id) == MessageFindManyByUser(db, user_id)

\* A repository call in flight: the method and its arguments.
Call(fn, id, name, email, content, user_id) ==
    [fn |-> fn, id |-> id, name |-> name, email |-> email,
     content |-> content, user_id |-> user_id]

NoCall == Call("none", Undefined, Undefined, Undefined, Undefined, Undefined)

\* The outcomes the awaited call can have when its statement runs at time t.
Outcomes(db, t, call) ==
    CASE call.fn = "getAllUsers" -> {getAllUsers(db)}
      [] call.fn = "createUser" -> {createUser(db, t, call.name, call.email)}
      [] call.fn = "updateUser" -> {updateUser(db, t, call.id, call.name, call.email)}
      [] call.fn = "deleteUser" -> {deleteUser(db, call.id)}
      [] call.fn = "getAllMessages" -> getAllMessages(db)
      [] call.fn = "getMessageById" -> {getMessageById(db, call.id)}
      [] call.fn = "createMessage" -> {createMessage(db, t, call.content, call.user_id)}
      [] call.fn = "updateMessage" -> {updateMessage(db, t, call.id, call.content)}
      [] call.fn = "deleteMessage" -> {deleteMessage(db, call.id)}
      [] call.fn = "getMessagesByUserId" -> getMessagesByUserId(db, call.user_id)

(***************************************************************************)
(* API Layer (server/index.ts)                                             *)
(***************************************************************************)
Body(parsed, name, email, content, user_id) ==
    [parsed |-> parsed, name |-> name, email |-> email,
     content |-> content, user_id |-> user_id]

\* a route that does not read the body
NoBody == Body(TRUE, Undefined, Undefined, Undefined, Undefined)
\* a body on which c.req.json() throws
BadBody == Body(FALSE, Undefined, Undefined, Undefined, Undefined)

Request(route, param, body) == [route |-> route, param |-> param, body |-> body]

NoRequest == Request("none", <<>>, NoBody)

Response(c, req, status, error, text, key, data) ==
    [client |-> c, req |-> req, status |-> status, error |-> error,
     message |-> text, key |-> key, data |-> data]

NoResponse == Response("none", NoRequest, 0, "", "", "", NoRows)

\* c.json({ error }, status)
Fail(c, req, status, error) == Response(c, req, status, error, "", "", NoRows)

\* What the first half of a handler decides: answer now, or await a call.
Answer(status, error) == [answer |-> TRUE, status |-> status, error |-> error, call |-> NoCall]
Await(call) == [answer |-> FALSE, status |-> 0, error |-> "", call |-> call]

\* Mutant: && in place of ||
PostUsersInvalidBoth(body) == Falsy(body.name) /\ Falsy(body.email)

\* if (!name || !email)
PostUsersInvalid(body) == Falsy(body.name) \/ Falsy(body.email)

\* Mutant: || in place of &&
PutUsersInvalidEither(body) == Falsy(body.name) \/ Falsy(body.email)

\* if (!name && !email)
PutUsersInvalid(body) == Falsy(body.name) /\ Falsy(body.email)

\* Mutant: every field of the body is copied into updateData.
UpdateDataFieldCopied(v) == v

\* if (name) updateData.name = name; if (email) updateData.email = email
UpdateDataField(v) == IF Falsy(v) THEN Undefined ELSE v

\* if (!content || !user_id)
PostMessagesInvalid(body) == Falsy(body.content) \/ Falsy(body.user_id)

\* Mutant: only a missing content is refused
PutMessagesInvalidUndefined(body) == body.content = Undefined

\* if (!content)
PutMessagesInvalid(body) == Falsy(body.content)

\* The generic answer of each handler's catch block
FailedTo(route) ==
    CASE route = "GET /users" -> "Failed to fetch users"
      [] route = "POST /users" -> "Failed to create user"
      [] route = "PUT /users/:id" -> "Failed to update user"
      [] route = "DELETE /users/:id" -> "Failed to delete user"
      [] route = "GET /messages" -> "Failed to fetch messages"
      [] route = "GET /messages/:id" -> "Failed to fetch message"
      [] route = "POST /messages" -> "Failed to create message"
      [] route = "PUT /messages/:id" -> "Failed to update message"
      [] route = "DELETE /messages/:id" -> "Failed to delete message"
      [] route = "GET /messages/user/:user_id" -> "Failed to fetch user messages"

\* Mutant: PUT /messages/:id calls updateMessage without looking at the body.
BeginPutUnchecked(req) ==
    LET b == req.body
        id == parseInt(req.param)
    IN
    CASE req.route = "GET /users" ->
            Await(Call("getAllUsers", Undefined, Undefined, Undefined, Undefined, Undefined))
      [] req.route = "POST /users" ->
            IF ~b.parsed THEN Answer(500, FailedTo(req.route))
            ELSE IF PostUsersInvalid(b) THEN Answer(400, "Name and email are required")
            ELSE Await(Call("createUser", Undefined, b.name, b.email, Undefined, Undefined))
      [] req.route = "PUT /users/:id" ->
            IF ~b.parsed THEN Answer(500, FailedTo(req.route))
            ELSE IF PutUsersInvalid(b)
                 THEN Answer(400, "At least one field (name or email) is required")
            ELSE Await(Call("updateUser", id, UpdateDataField(b.name),
                            UpdateDataField(b.email), Undefined, Undefined))
      [] req.route = "DELETE /users/:id" ->
            Await(Call("deleteUser", id, Undefined, Undefined, Undefined, Undefined))
      [] req.route = "GET /messages" ->
            Await(Call("getAllMessages", Undefined, Undefined, Undefined, Undefined, Undefined))
      [] req.route = "GET /messages/:id" ->
            Await(Call("getMessageById", id, Undefined, Undefined, Undefined, Undefined))
      [] req.route = "POST /messages" ->
            IF ~b.parsed THEN Answer(500, FailedTo(req.route))
            ELSE IF PostMessagesInvalid(b) THEN Answer(400, "Content and user_id are required")
            ELSE Await(Call("createMessage", Undefined, Undefined, Undefined, b.content, b.user_id))
      [] req.route = "PUT /messages/:id" ->
            IF ~b.parsed THEN Answer(500, FailedTo(req.route))
            ELSE Await(Call("updateMessage", id, Undefined, Undefined, b.content, Undefined))
      [] req.route = "DELETE /messages/:id" ->
            Await(Call("deleteMessage", id, Undefined, Undefined, Undefined, Undefined))
      [] req.route = "GET /messages/user/:user_id" ->
            Await(Call("getMessagesByUserId", Undefined, Undefined, Undefined, Undefined, id))

\* The handler up to its await of the repository.
Begin(req) ==
    LET b == req.body
        id == parseInt(req.param)
    IN
    CASE req.route = "GET /users" ->
            Await(Call("getAllUsers", Undefined, Undefined, Undefined, Undefined, Undefined))
      [] req.route = "POST /users" ->
            IF ~b.parsed THEN Answer(500, FailedTo(req.route))
            ELSE IF PostUsersInvalid(b) THEN Answer(400, "Name and email are required")
            ELSE Await(Call("createUser", Undefined, b.name, b.email, Undefined, Undefined))
      [] req.route = "PUT /users/:id" ->
            IF ~b.parsed THEN Answer(500, FailedTo(req.route))
            ELSE IF PutUsersInvalid(b)
                 THEN Answer(400, "At least one field (name or email) is required")
            ELSE Await(Call("updateUser", id, UpdateDataField(b.name),
                            UpdateDataField(b.email), Undefined, Undefined))
      [] req.route = "DELETE /users/:id" ->
            Await(Call("deleteUser", id, Undefined, Undefined, Undefined, Undefined))
      [] req.route = "GET /messages" ->
            Await(Call("getAllMessages", Undefined, Undefined, Undefined, Undefined, Undefined))
      [] req.route = "GET /messages/:id" ->
            Await(Call("getMessageById", id, Undefined, Undefined, Undefined, Undefined))
      [] req.route = "POST /messages" ->
            IF ~b.parsed THEN Answer(500, FailedTo(req.route))
            ELSE IF PostMessagesInvalid(b) THEN Answer(400, "Content and user_id are required")
            ELSE Await(Call("createMessage", Undefined, Undefined, Undefined, b.content, b.user_id))
      [] req.route = "PUT /messages/:id" ->
            IF ~b.parsed THEN Answer(500, FailedTo(req.route))
            ELSE IF PutMessagesInvalid(b) THEN Answer(400, "Content is required")
            ELSE Await(Call("updateMessage", id, Undefined, Undefined, b.content, Undefined))
      [] req.route = "DELETE /messages/:id" ->
            Await(Call("deleteMessage", id, Undefined, Undefined, Undefined, Undefined))
      [] req.route = "GET /messages/user/:user_id" ->
            Await(Call("getMessagesByUserId", Undefined, Undefined, Undefined, Undefined, id))

\* Mutant: the generic answer carries the text of the error that was caught.
CaughtLeaky(c, req, code) ==
    CASE req.route \in {"POST /users", "PUT /users/:id"} /\ code = "UNIQUE_VIOLATION" ->
            Fail(c, req, 409, "Email already exists")
      [] req.route \in {"PUT /users/:id", "DELETE /users/:id"} /\ code = "NOT_FOUND" ->
            Fail(c, req, 404, "User not found")
      [] req.route = "POST /messages" /\ code = "FOREIGN_KEY_VIOLATION" ->
            Fail(c, req, 404, "User not found")
      [] req.route \in {"PUT /messages/:id", "DELETE /messages/:id"} /\ code = "NOT_FOUND" ->
            Fail(c, req, 404, "Message not found")
      [] OTHER -> Fail(c, req, 500, code)

\* Mutant: the foreign key violation is answered with another text.
CaughtRelatedRecord(c, req, code) ==
    CASE req.route \in {"POST /users", "PUT /users/:id"} /\ code = "UNIQUE_VIOLATION" ->
            Fail(c, req, 409, "Email already exists")
      [] req.route \in {"PUT /users/:id", "DELETE /users/:id"} /\ code = "NOT_FOUND" ->
            Fail(c, req, 404, "User not found")
      [] req.route = "POST /messages" /\ code = "FOREIGN_KEY_VIOLATION" ->
            Fail(c, req, 404, "Related record not found")
      [] req.route \in {"PUT /messages/:id", "DELETE /messages/:id"} /\ code = "NOT_FOUND" ->
            Fail(c, req, 404, "Message not found")
      [] OTHER -> Fail(c, req, 500, FailedTo(req.route))

\* The catch block of a handler: the status and message for a thrown error code.
Caught(c, req, code) ==
    CASE req.route \in {"POST /users", "PUT /users/:id"} /\ code = "UNIQUE_VIOLATION" ->
            Fail(c, req, 409, "Email already exists")
      [] req.route \in {"PUT /users/:id", "DELETE /users/:id"} /\ code = "NOT_FOUND" ->
            Fail(c, req, 404, "User not found")
      [] req.route = "POST /messages" /\ code = "FOREIGN_KEY_VIOLATION" ->
            Fail(c, req, 404, "User not found")
      [] req.route \in {"PUT /messages/:id", "DELETE /messages/:id"} /\ code = "NOT_FOUND" ->
            Fail(c, req, 404, "Message not found")
      [] OTHER -> Fail(c, req, 500, FailedTo(req.route))

\* Mutant: a delete answers 204 with no body.
FinishNoContent(c, req, r) ==
    IF r.code # "OK" THEN Caught(c, req, r.code)
    ELSE
    CASE req.route = "GET /users" -> Response(c, req, 200, "", "", "users", r.rows)
      [] req.route = "POST /users" -> Response(c, req, 201, "", "User created", "user", r.rows)
      [] req.route = "PUT /users/:id" -> Response(c, req, 200, "", "User updated", "user", r.rows)
      [] req.route = "DELETE /users/:id" -> Response(c, req, 204, "", "", "", NoRows)
      [] req.route = "GET /messages" -> Response(c, req, 200, "", "", "messages", r.rows)
      [] req.route = "GET /messages/:id" ->
            IF r.rows = NoRows THEN Fail(c, req, 404, "Message not found")
            ELSE Response(c, req, 200, "", "", "message", r.rows)
      [] req.route = "POST /messages" -> Response(c, req, 201, "", "Message created", "data", r.rows)
      [] req.route = "PUT /messages/:id" -> Response(c, req, 200, "", "Message updated", "data", r.rows)
      [] req.route = "DELETE /messages/:id" -> Response(c, req, 204, "", "", "", NoRows)
      [] req.route = "GET /messages/user/:user_id" -> Response(c, req, 200, "", "", "messages", r.rows)

\* The handler after its await: the response for the call's outcome r.
Finish(c, req, r) ==
    IF r.code # "OK" THEN Caught(c, req, r.code)
    ELSE
    CASE req.route = "GET /users" -> Response(c, req, 200, "", "", "users", r.rows)
      [] req.route = "POST /users" -> Response(c, req, 201, "", "User created", "user", r.rows)
      [] req.route = "PUT /users/:id" -> Response(c, req, 200, "", "User updated", "user", r.rows)
      [] req.route = "DELETE /users/:id" -> Response(c, req, 200, "", "User deleted", "", NoRows)
      [] req.route = "GET /messages" -> Response(c, req, 200, "", "", "messages", r.rows)
      [] req.route = "GET /messages/:id" ->
            IF r.rows = NoRows THEN Fail(c, req, 404, "Message not found")
            ELSE Response(c, req, 200, "", "", "message", r.rows)
      [] req.route = "POST /messages" -> Response(c, req, 201, "", "Message created", "data", r.rows)
      [] req.route = "PUT /messages/:id" -> Response(c, req, 200, "", "Message updated", "data", r.rows)
      [] req.route = "DELETE /messages/:id" -> Response(c, req, 200, "", "Message deleted", "", NoRows)
      [] req.route = "GET /messages/user/:user_id" -> Response(c, req, 200, "", "", "messages", r.rows)

(***************************************************************************)
(* The requests the clients send                                           *)
(***************************************************************************)
NameValues == {Undefined, Str("")} \cup {Str(x) : x \in Names}
EmailValues == {Undefined, Str("")} \cup {Str(x) : x \in Emails}
ContentValues == {Undefined, Str("")} \cup {Str(x) : x \in Contents}
UserIdValues == {Undefined} \cup {Num(k) : k \in 0..(MaxUserId + 1)}

UserBodies ==
    {BadBody} \cup
    {Body(TRUE, n, e, Undefined, Undefined) : n \in NameValues, e \in EmailValues}

PostMessageBodies ==
    {BadBody} \cup
    {Body(TRUE, Undefined, Undefined, ct, u) : ct \in ContentValues, u \in UserIdValues}

PutMessageBodies ==
    {BadBody} \cup
    {Body(TRUE, Undefined, Undefined, ct, Undefined) : ct \in ContentValues}

Idle == [req |-> NoRequest, call |-> NoCall]

Init ==
    /\ users = {}
    /\ messages = {}
    /\ userSeq = 0
    /\ messageSeq = 0
    /\ now = 0
    /\ client = [c \in Clients |-> Idle]
    /\ out = NoResponse
    /\ before = EmptyDB
    /\ trace = <<>>
    /\ message = ""
    /\ messageType = "success"
    /\ timers = {}
    /\ elapsed = 0
    /\ calls = 0
    /\ shown = 0
    /\ cleared = [timer |-> 0, shown |-> 0]

\* The outcomes of a call that leave the id sequences within the model's bounds
Bounded(db, t, call) ==
    {r \in Outcomes(db, t, call) :
        r.db.userSeq <= MaxUserId /\ r.db.messageSeq <= MaxMessageId}

Commit(r) ==
    /\ users' = r.db.users
    /\ messages' = r.db.messages
    /\ userSeq' = r.db.userSeq
    /\ messageSeq' = r.db.messageSeq

\* A whole handler: the request of client c is parsed and validated, the
\* repository call (if validation lets it through) runs its statement, and
\* the response is sent.
Serve(c, req) ==
    /\ out = NoResponse
    /\ LET d == Begin(req)
       IN  IF d.answer
           THEN /\ out' = Fail(c, req, d.status, d.error)
                /\ UNCHANGED <<users, messages, userSeq, messageSeq>>
           ELSE \E r \in Bounded(DB, now, d.call) :
                   /\ Commit(r)
                   /\ out' = Finish(c, req, r)
    /\ before' = DB
    /\ UNCHANGED <<now, client>>
    /\ UNCHANGED ui

Handle(c, req) == Serve(c, req) /\ UNCHANGED trace

\* The routes.  A connection carries one request at a time.
GetUsers(c) ==
    /\ client[c] = Idle
    /\ Handle(c, Request("GET /users", <<>>, NoBody))

PostUsers(c) ==
    /\ client[c] = Idle
    /\ \E b \in UserBodies : Handle(c, Request("POST /users", <<>>, b))

PutUsers(c) ==
    /\ client[c] = Idle
    /\ \E p \in PathParams, b \in UserBodies :
          Handle(c, Request("PUT /users/:id", p, b))

DeleteUsers(c) ==
    /\ client[c] = Idle
    /\ \E p \in PathParams : Handle(c, Request("DELETE /users/:id", p, NoBody))

GetMessages(c) ==
    /\ client[c] = Idle
    /\ Handle(c, Request("GET /messages", <<>>, NoBody))

GetMessage(c) ==
    /\ client[c] = Idle
    /\ \E p \in PathParams : Handle(c, Request("GET /messages/:id", p, NoBody))

PostMessages(c) ==
    /\ client[c] = Idle
    /\ \E b \in PostMessageBodies : Handle(c, Request("POST /messages", <<>>, b))

PutMessages(c) ==
    /\ client[c] = Idle
    /\ \E p \in PathParams, b \in PutMessageBodies :
          Handle(c, Request("PUT /messages/:id", p, b))

DeleteMessages(c) ==
    /\ client[c] = Idle
    /\ \E p \in PathParams : Handle(c, Request("DELETE /messages/:id", p, NoBody))

GetUserMessages(c) ==
    /\ client[c] = Idle
    /\ \E p \in PathParams :
          Handle(c, Request("GET /messages/user/:user_id", p, NoBody))

\* The client reads the response; the next step starts from a quiet wire.
Deliver ==
    /\ out # NoResponse
    /\ out' = NoResponse
    /\ before' = EmptyDB
    /\ UNCHANGED <<users, messages, userSeq, messageSeq, now, client, trace>>
    /\ UNCHANGED ui

\* Time passes.
Tick ==
    /\ out = NoResponse
    /\ now < MaxClock
    /\ now' = now + 1
    /\ UNCHANGED <<users, messages, userSeq, messageSeq, client, out, before, trace>>
    /\ UNCHANGED ui

Next ==
    \/ GetUsers(Main)
    \/ PostUsers(Main)
    \/ PutUsers(Main)
    \/ DeleteUsers(Main)
    \/ GetMessages(Main)
    \/ GetMessage(Main)
    \/ PostMessages(Main)
    \/ PutMessages(Main)
    \/ DeleteMessages(Main)
    \/ GetUserMessages(Main)
    \/ Deliver

\* Requests served one at a time, all within one instant of the clock.
Spec == Init /\ [][Next]_vars

\* The same with time passing between requests.
NextClock == Next \/ Tick

SpecClock == Init /\ [][NextClock]_vars

(***************************************************************************)
(* Two requests in flight.  The handler runs up to its await (Begin), the  *)
(* statement of the awaited call runs later as one atomic step, and the    *)
(* handler then answers (Finish).  The racing requests are the writes that *)
(* pass validation.                                                        *)
(***************************************************************************)
RaceParams == {<<"1">>, <<"2">>}

RacePostBodies ==
    {Body(TRUE, Str(n), Str(e), Undefined, Undefined) : n \in Names, e \in Emails}

RacePutBodies ==
    {Body(TRUE, n, e, Undefined, Undefined) :
        n \in {Undefined} \cup {Str(x) : x \in Names},
        e \in {Undefined} \cup {Str(x) : x \in Emails}} \ {NoBody}

\* The handler of req runs up to the await of its repository call, or to the
\* response it sends without one.
Start(c, req) ==
    /\ out = NoResponse
    /\ LET d == Begin(req)
       IN  IF d.answer
           THEN /\ out' = Fail(c, req, d.status, d.error)
                /\ before' = DB
                /\ UNCHANGED client
           ELSE /\ client' = [client EXCEPT ![c] = [req |-> req, call |-> d.call]]
                /\ UNCHANGED <<out, before>>
    /\ UNCHANGED <<users, messages, userSeq, messageSeq, now, trace>>
    /\ UNCHANGED ui

StartPostUsers(c) ==
    /\ client[c] = Idle
    /\ \E b \in RacePostBodies : Start(c, Request("POST /users", <<>>, b))

StartPutUsers(c) ==
    /\ client[c] = Idle
    /\ \E p \in RaceParams, b \in RacePutBodies :
          Start(c, Request("PUT /users/:id", p, b))

StartDeleteUsers(c) ==
    /\ client[c] = Idle
    /\ \E p \in RaceParams : Start(c, Request("DELETE /users/:id", p, NoBody))

StartPostMessages(c) ==
    /\ client[c] = Idle
    /\ \E ct \in Contents, u \in 1..MaxUserId :
          Start(c, Request("POST /messages", <<>>,
                           Body(TRUE, Undefined, Undefined, Str(ct), Num(u))))

StartPutMessages(c) ==
    /\ client[c] = Idle
    /\ \E p \in RaceParams, ct \in Contents :
          Start(c, Request("PUT /messages/:id", p,
                           Body(TRUE, Undefined, Undefined, Str(ct), Undefined)))

StartDeleteMessages(c) ==
    /\ client[c] = Idle
    /\ \E p \in RaceParams : Start(c, Request("DELETE /messages/:id", p, NoBody))

\* The statement of the call client c awaits runs, and the handler answers.
Resume(c) ==
    /\ out = NoResponse
    /\ client[c] # Idle
    /\ \E r \in Bounded(DB, now, client[c].call) :
          /\ Commit(r)
          /\ out' = Finish(c, client[c].req, r)
    /\ before' = DB
    /\ client' = [client EXCEPT ![c] = Idle]
    /\ UNCHANGED now
    /\ UNCHANGED ui

Complete(c) ==
    /\ Resume(c)
    /\ UNCHANGED trace

NextRace ==
    \/ \E c \in Clients :
          \/ StartPostUsers(c)
          \/ StartPutUsers(c)
          \/ StartDeleteUsers(c)
          \/ StartPostMessages(c)
          \/ StartPutMessages(c)
          \/ StartDeleteMessages(c)
          \/ Complete(c)
    \/ Deliver

SpecRace == Init /\ [][NextRace]_vars

(***************************************************************************)
(* Two updates of one row.  After any run of requests, the two clients     *)
(* each send a PUT for the same stored row; both handlers reach their      *)
(* await before either statement runs, the statements then run in either   *)
(* order, and the responses are kept in the order of the statements.       *)
(***************************************************************************)
Other(c) == CHOOSE o \in Clients : o # c

\* the row the request addresses is stored, and the request is for the row
\* the request already in flight is for
SameStoredRow(c, req) ==
    /\ trace = <<>>
    /\ c = Main \/ client[Main] # Idle
    /\ IF req.route = "PUT /users/:id"
       THEN parseInt(req.param).n \in UserIds(users)
       ELSE parseInt(req.param).n \in MessageIds(messages)
    /\ client[Other(c)] # Idle =>
          /\ client[Other(c)].req.route = req.route
          /\ client[Other(c)].req.param = req.param

PairPrelude ==
    /\ trace = <<>>
    /\ \A c \in Clients : client[c] = Idle
    /\ Next

PairPutUsers(c) ==
    /\ client[c] = Idle
    /\ \E p \in RaceParams, b \in RacePutBodies :
          /\ SameStoredRow(c, Request("PUT /users/:id", p, b))
          /\ Start(c, Request("PUT /users/:id", p, b))

PairPutMessages(c) ==
    /\ client[c] = Idle
    /\ \E p \in RaceParams, ct \in Contents :
          LET req == Request("PUT /messages/:id", p,
                             Body(TRUE, Undefined, Undefined, Str(ct), Undefined))
          IN  SameStoredRow(c, req) /\ Start(c, req)

\* time passes while both requests are in flight
PairTick ==
    /\ \A c \in Clients : client[c] # Idle
    /\ Tick

PairComplete(c) ==
    /\ client[Other(c)] # Idle \/ Len(trace) = 1
    /\ Resume(c)
    /\ trace' = Append(trace, out')

PairRead ==
    /\ trace # <<>>
    /\ Deliver

NextPair ==
    \/ PairPrelude
    \/ \E c \in Clients :
          \/ PairPutUsers(c)
          \/ PairPutMessages(c)
          \/ PairComplete(c)
    \/ PairTick
    \/ PairRead

SpecPair == Init /\ [][NextPair]_vars

(***************************************************************************)
(* The end-to-end scenario: after any run of requests that leaves no Alice *)
(* in the store, one client sends the six requests one after the other and *)
(* keeps the responses.                                                    *)
(***************************************************************************)
\* `${id}`: the decimal digits of an id, as the client writes it into the URL
DigitChar == <<"0", "1", "2", "3", "4", "5", "6", "7", "8", "9">>

RECURSIVE IdToParam(_)
IdToParam(n) ==
    IF n < 10 THEN <<DigitChar[n + 1]>>
    ELSE IdToParam(n \div 10) \o <<DigitChar[(n % 10) + 1]>>

AliceBody == Body(TRUE, Str("Alice"), Str("alice@example.com"), Undefined, Undefined)

\* the id the first response assigned to Alice, and the id of her message
AliceId == IF Len(trace) >= 1 /\ trace[1].data # NoRows THEN trace[1].data[1].id ELSE 0
HiId == IF Len(trace) >= 4 /\ trace[4].data # NoRows THEN trace[4].data[1].id ELSE 0

Scripted(req) ==
    /\ client[Main] = Idle
    /\ Serve(Main, req)
    /\ trace' = Append(trace, out')

\* any requests before the scenario starts
Prelude ==
    /\ trace = <<>>
    /\ Next

E2EPostAlice ==
    /\ Len(trace) = 0
    /\ \A u \in users : u.name # "Alice" /\ u.email # "alice@example.com"
    /\ messageSeq < MaxMessageId
    /\ Scripted(Request("POST /users", <<>>, AliceBody))

E2EPostAliceAgain ==
    /\ Len(trace) = 1
    /\ Scripted(Request("POST /users", <<>>, AliceBody))

E2EGetUsers ==
    /\ Len(trace) = 2
    /\ Scripted(Request("GET /users", <<>>, NoBody))

E2EPostHi ==
    /\ Len(trace) = 3
    /\ Scripted(Request("POST /messages", <<>>,
                        Body(TRUE, Undefined, Undefined, Str("hi"), Num(AliceId))))

E2EDeleteAlice ==
    /\ Len(trace) = 4
    /\ Scripted(Request("DELETE /users/:id", IdToParam(AliceId), NoBody))

E2EGetMessages ==
    /\ Len(trace) = 5
    /\ Scripted(Request("GET /messages", <<>>, NoBody))

\* the client reads a response of the scenario
E2ERead ==
    /\ trace # <<>>
    /\ Deliver

NextE2E ==
    \/ Prelude
    \/ E2EPostAlice
    \/ E2EPostAliceAgain
    \/ E2EGetUsers
    \/ E2EPostHi
    \/ E2EDeleteAlice
    \/ E2EGetMessages
    \/ E2ERead

SpecE2E == Init /\ [][NextE2E]_vars

(***************************************************************************)
(* The user-management component (UserManagement.vue): showMessage sets    *)
(* the notification and starts a timeout of 3000 ms whose callback empties *)
(* it.  The handlers of the component call showMessage whenever a request  *)
(* of theirs has been answered or has failed, so calls come at any time.   *)
(* Time is counted in seconds; a timeout fires when its time has come and  *)
(* before any more time passes, timeouts set earlier firing first.         *)
(***************************************************************************)
\* setTimeout(..., 3000)
Delay == 3

\* the texts and types showMessage is called with
Notices ==
    {[text |-> "created", type |-> "success"],
     [text |-> "failed", type |-> "error"]}

server == <<users, messages, userSeq, messageSeq, now, client, out, before, trace>>

\* the timeouts whose time has come
Due == {t \in timers : t.at <= elapsed}

\* showMessage(text, type)
showMessage ==
    /\ calls < MaxCalls
    /\ elapsed + Delay <= MaxElapsed
    /\ \E n \in Notices :
          /\ message' = n.text
          /\ messageType' = n.type
    /\ timers' = timers \cup {[at |-> elapsed + Delay, call |-> calls + 1]}
    /\ calls' = calls + 1
    /\ shown' = calls + 1
    /\ UNCHANGED <<elapsed, cleared>>
    /\ UNCHANGED server

\* () => { message.value = '' }
TimerFires ==
    /\ \E t \in Due :
          /\ \A o \in Due : t.call <= o.call
          /\ timers' = timers \ {t}
          /\ cleared' = [timer |-> t.call, shown |-> shown]
    /\ message' = ""
    /\ shown' = 0
    /\ UNCHANGED <<messageType, elapsed, calls>>
    /\ UNCHANGED server

\* a second passes
Second ==
    /\ Due = {}
    /\ elapsed < MaxElapsed
    /\ elapsed' = elapsed + 1
    /\ UNCHANGED <<message, messageType, timers, calls, shown, cleared>>
    /\ UNCHANGED server

NextNotice ==
    \/ showMessage
    \/ TimerFires
    \/ Second

SpecNotice == Init /\ [][NextNotice]_vars

\* the event loop runs every timeout whose time has come, and time goes on
SpecNoticeFair ==
    /\ SpecNotice
    /\ WF_vars(TimerFires)
    /\ WF_vars(Second)

(***************************************************************************)
(* Properties                                                              *)
(***************************************************************************)
\* the last step answered a request on this route
Answered(route) == out # NoResponse /\ out.req.route = route

\* a body field that is missing or the empty string
Missing(v) == v = Undefined \/ v = Str("")

\* C1: in every state reachable by interleaved user and message writes, every
\* stored message's user_id is the id of a stored user.
ReferentialIntegrity ==
    \A m \in messages : \E u \in users : u.id = m.user_id

\* A createMessage is in flight for a user whose deleteUser, started by the
\* other connection while it was in flight, has just run.
CreateMessageRacesDeleteUser ==
    /\ Answered("DELETE /users/:id")
    /\ out.status = 200
    /\ \E c \in Clients \ {out.client} :
          /\ client[c].call.fn = "createMessage"
          /\ client[c].call.user_id = parseInt(out.req.param)
          /\ \E u \in before.users : u.id = client[c].call.user_id.n

\* C2: in every state reachable by interleaved POST /users and PUT /users/:id,
\* no two distinct stored users have the same email.
EmailUnique ==
    \A u1 \in users : \A u2 \in users : u1.email = u2.email => u1 = u2

\* A user has just been created with an email that the request in flight on
\* the other connection, started before, also supplies.
ConcurrentSameEmail ==
    /\ Answered("POST /users")
    /\ out.status = 201
    /\ \E c \in Clients \ {out.client} :
          /\ client[c].call.fn \in {"createUser", "updateUser"}
          /\ client[c].call.email = out.req.body.email

\* the last step answered a POST /users with a non-empty name and an email
\* that a stored user had
DuplicatePost ==
    /\ Answered("POST /users")
    /\ out.req.body.parsed
    /\ ~Missing(out.req.body.name)
    /\ ~Missing(out.req.body.email)
    /\ \E u \in before.users : u.email = out.req.body.email.s

\* C3: POST /users with a non-empty name and an email some stored user has
\* answers 409 "Email already exists" and leaves the store as it was.
DuplicateEmailIs409 ==
    DuplicatePost =>
        /\ out.status = 409
        /\ out.error = "Email already exists"
        /\ DB = before

DuplicateEmailOtherName ==
    /\ DuplicatePost
    /\ out.status = 409
    /\ \E u \in before.users :
          u.email = out.req.body.email.s /\ u.name # out.req.body.name.s

\* the last step answered a POST /messages that reached createMessage with a
\* user_id no stored user had
OrphanPost ==
    /\ Answered("POST /messages")
    /\ ~Begin(out.req).answer
    /\ \A u \in before.users : u.id # out.req.body.user_id.n

\* C4: createMessage with a user_id that references no stored user fails with
\* FOREIGN_KEY_VIOLATION, the API answers 404, and no row is added.
OrphanMessageIs404 ==
    OrphanPost =>
        /\ createMessage(before, now, out.req.body.content, out.req.body.user_id).code
              = "FOREIGN_KEY_VIOLATION"
        /\ out.status = 404
        /\ DB = before

OrphanMessageRejected ==
    /\ OrphanPost
    /\ out.status = 404
    /\ before.users # {}

\* the last step answered a DELETE /users/:id whose id a stored user had
DeleteStoredUser ==
    /\ Answered("DELETE /users/:id")
    /\ IsInt(parseInt(out.req.param))
    /\ \E u \in before.users : u.id = parseInt(out.req.param).n

\* C5: deleteUser on a stored user that owns N >= 0 messages removes the user
\* and all N messages in that one step: no message refers to the id any more
\* and getUserById returns nothing.
DeleteUserCascades ==
    DeleteStoredUser =>
        LET id == parseInt(out.req.param)
            owned == {m \in before.messages : m.user_id = id.n}
        IN  /\ out.status = 200
            /\ \A m \in messages : m.user_id # id.n
            /\ Cardinality(messages) = Cardinality(before.messages) - Cardinality(owned)
            /\ getUserById(DB, id).code = "OK"
            /\ getUserById(DB, id).rows = NoRows

DeletedUserOwnedMessages ==
    /\ DeleteStoredUser
    /\ out.status = 200
    /\ \E m \in before.messages : m.user_id = parseInt(out.req.param).n

\* the last step answered an update or delete that reached the repository
\* with an integer id that no stored row of its table had
MissingTarget ==
    /\ out # NoResponse
    /\ ~Begin(out.req).answer
    /\ IsInt(parseInt(out.req.param))
    /\ \/ /\ out.req.route \in {"PUT /users/:id", "DELETE /users/:id"}
          /\ \A u \in before.users : u.id # parseInt(out.req.param).n
       \/ /\ out.req.route \in {"PUT /messages/:id", "DELETE /messages/:id"}
          /\ \A m \in before.messages : m.id # parseInt(out.req.param).n

\* C6: updateUser, updateMessage, deleteUser and deleteMessage on an id that
\* is not stored answer 404 not found, change nothing, and the same request
\* sent again gets the same answer and changes nothing.
MissingTargetIs404 ==
    MissingTarget =>
        /\ out.status = 404
        /\ out.error = (IF out.req.route \in {"PUT /users/:id", "DELETE /users/:id"}
                        THEN "User not found" ELSE "Message not found")
        /\ DB = before
        /\ \A r \in Outcomes(DB, now, Begin(out.req).call) :
              /\ r.code = "NOT_FOUND"
              /\ r.db = DB
              /\ Finish(out.client, out.req, r) = out

DeleteMissingMessage ==
    /\ MissingTarget
    /\ out.req.route = "DELETE /messages/:id"
    /\ out.status = 404
    /\ messages # {}

\* the last step answered a POST /users with a non-empty name and an email
\* that no stored user had
FreshPost ==
    /\ Answered("POST /users")
    /\ out.req.body.parsed
    /\ ~Missing(out.req.body.name)
    /\ ~Missing(out.req.body.email)
    /\ \A u \in before.users : u.email # out.req.body.email.s

\* C7: createUser with a non-empty name and an unused email succeeds, and
\* getUserById on the id it returned gives a user with that name and email.
CreateThenGet ==
    FreshPost =>
        /\ out.status = 201
        /\ Len(out.data) = 1
        /\ LET got == getUserById(DB, Num(out.data[1].id))
           IN  /\ got.code = "OK"
               /\ Len(got.rows) = 1
               /\ got.rows[1].name = out.req.body.name.s
               /\ got.rows[1].email = out.req.body.email.s

CreatedSecondUser ==
    /\ FreshPost
    /\ out.status = 201
    /\ before.users # {}

\* C9: POST /users whose body lacks name or email, or has either empty,
\* answers 400 without calling createUser and leaves the store as it was.
PostUsersRequiresBoth ==
    ( /\ Answered("POST /users")
      /\ out.req.body.parsed
      /\ (Missing(out.req.body.name) \/ Missing(out.req.body.email)) ) =>
        /\ out.status = 400
        /\ Begin(out.req).answer
        /\ DB = before

PostUsersWithoutEmail ==
    /\ Answered("POST /users")
    /\ out.status = 400
    /\ out.req.body.name \in {Str(x) : x \in Names}
    /\ out.req.body.email = Str("")

\* C10 as claimed: PUT /users/:id answers 400 exactly when the body supplies
\* neither name nor email, and a body with either present reaches updateUser.
PutUsers400IffNeitherPresent ==
    ( Answered("PUT /users/:id") /\ out.req.body.parsed ) =>
        LET neither == out.req.body.name = Undefined /\ out.req.body.email = Undefined
        IN  /\ out.status = 400 <=> neither
            /\ out.status = 400 => DB = before
            /\ ~neither => Begin(out.req).call.fn = "updateUser"

\* C10 amended: PUT /users/:id answers 400 exactly when neither name nor email
\* is a non-empty value (a missing field and an empty string count alike); a
\* 400 leaves the store as it was, and any other body reaches updateUser with
\* its non-empty fields only.
PutUsers400IffNeitherNonEmpty ==
    ( Answered("PUT /users/:id") /\ out.req.body.parsed ) =>
        LET neither == Missing(out.req.body.name) /\ Missing(out.req.body.email)
            d == Begin(out.req)
        IN  /\ out.status = 400 <=> neither
            /\ out.status = 400 => DB = before
            /\ ~neither =>
                  /\ d.call.fn = "updateUser"
                  /\ d.call.name = (IF Missing(out.req.body.name) THEN Undefined
                                    ELSE out.req.body.name)
                  /\ d.call.email = (IF Missing(out.req.body.email) THEN Undefined
                                     ELSE out.req.body.email)

PutUsersEmptyNameOnly ==
    /\ Answered("PUT /users/:id")
    /\ out.status = 400
    /\ out.req.body.name = Str("")
    /\ out.req.body.email = Undefined
    /\ \E u \in users : u.id = parseInt(out.req.param).n

\* C8: the scenario answers 201 with an id, then 409 to the same email, then
\* lists exactly one Alice, then 201 to her message, then 200 to her deletion,
\* and the final list of messages does not contain that message.
EndToEnd ==
    /\ Len(trace) >= 1 =>
          /\ trace[1].status = 201
          /\ Len(trace[1].data) = 1
          /\ trace[1].data[1].id \in 1..MaxUserId
    /\ Len(trace) >= 2 => trace[2].status = 409
    /\ Len(trace) >= 3 =>
          /\ trace[3].status = 200
          /\ Cardinality({i \in DOMAIN trace[3].data :
                             trace[3].data[i].name = "Alice"}) = 1
          /\ \E i \in DOMAIN trace[3].data :
                /\ trace[3].data[i].id = AliceId
                /\ trace[3].data[i].name = "Alice"
                /\ trace[3].data[i].email = "alice@example.com"
    /\ Len(trace) >= 4 =>
          /\ trace[4].status = 201
          /\ Len(trace[4].data) = 1
    /\ Len(trace) >= 5 => trace[5].status = 200
    /\ Len(trace) >= 6 =>
          /\ trace[6].status = 200
          /\ \A i \in DOMAIN trace[6].data :
                trace[6].data[i].id # HiId /\ trace[6].data[i].user_id # AliceId

ScenarioDoneAmongOthers ==
    /\ Len(trace) = 6
    /\ trace[6].status = 200
    /\ trace[6].data # NoRows

\* C11: POST /messages answers 400, leaving the store as it was, exactly when
\* content is missing or empty or user_id is not supplied; a body with a
\* non-empty content and any integer user_id, 0 included, reaches createMessage.
PostMessages400IffNotSupplied ==
    ( Answered("POST /messages") /\ out.req.body.parsed ) =>
        LET lacking == Missing(out.req.body.content) \/ out.req.body.user_id = Undefined
        IN  /\ out.status = 400 <=> lacking
            /\ out.status = 400 => DB = before
            /\ ~lacking => Begin(out.req).call.fn = "createMessage"

\* the last step answered a PUT /messages/:id whose body has no content or an
\* empty one
PutWithoutContent ==
    /\ Answered("PUT /messages/:id")
    /\ out.req.body.parsed
    /\ Missing(out.req.body.content)

\* C12: PUT /messages/:id whose body lacks content, or has it empty, answers
\* 400 "Content is required" without calling updateMessage, and every stored
\* message is as it was.
PutMessagesRequiresContent ==
    PutWithoutContent =>
        /\ out.status = 400
        /\ out.error = "Content is required"
        /\ Begin(out.req).answer
        /\ Begin(out.req).call = NoCall
        /\ DB = before

PutEmptyContentOnStoredMessage ==
    /\ PutWithoutContent
    /\ out.status = 400
    /\ out.req.body.content = Str("")
    /\ \E m \in messages : m.id = parseInt(out.req.param).n

\* the last step answered a request on a route with a path identity whose
\* path value is not an integer literal, and the handler got as far as its
\* repository call
MalformedPath ==
    /\ out # NoResponse
    /\ out.req.route \in {"PUT /users/:id", "DELETE /users/:id", "GET /messages/:id",
                          "PUT /messages/:id", "DELETE /messages/:id"}
    /\ \E i \in DOMAIN out.req.param : ~IsDigit(out.req.param[i])
    /\ ~Begin(out.req).answer

\* C13: on PUT and DELETE /users/:id and GET, PUT and DELETE /messages/:id a
\* malformed, non-integer path value is a lookup miss: the answer is the 404
\* not-found response of the endpoint, never 500, and the store is as it was.
MalformedPathIs404 ==
    MalformedPath =>
        /\ out.status = 404
        /\ out.error = (IF out.req.route \in {"PUT /users/:id", "DELETE /users/:id"}
                        THEN "User not found" ELSE "Message not found")
        /\ DB = before

\* every route of the server
Routes ==
    {"GET /users", "POST /users", "PUT /users/:id", "DELETE /users/:id",
     "GET /messages", "GET /messages/:id", "POST /messages", "PUT /messages/:id",
     "DELETE /messages/:id", "GET /messages/user/:user_id"}

\* the error strings written in the handlers
HandlerErrors ==
    {"Name and email are required", "At least one field (name or email) is required",
     "Content and user_id are required", "Content is required",
     "Email already exists", "User not found", "Message not found"}
    \cup {FailedTo(r) : r \in Routes}

ForeignKeyFailure ==
    /\ Answered("POST /messages")
    /\ ~Begin(out.req).answer
    /\ createMessage(before, now, out.req.body.content, out.req.body.user_id).code
          = "FOREIGN_KEY_VIOLATION"

PutStoredUser ==
    /\ Answered("PUT /users/:id")
    /\ ~Begin(out.req).answer
    /\ IsInt(parseInt(out.req.param))
    /\ \E u \in before.users : u.id = parseInt(out.req.param).n

\* C17: a PUT /users/:id on a stored user changes only the fields it supplies:
\* without an email the email stays, without a name the name stays, a supplied
\* field takes the supplied value, and the id stays; a PUT that fails changes
\* nothing.
UpdateOnlySupplied ==
    PutStoredUser =>
        LET id == parseInt(out.req.param).n
            old == UserOf(before.users, id)
        IN  IF out.status = 200
            THEN /\ UserIds(users) = UserIds(before.users)
                 /\ Cardinality({u \in users : u.id = id}) = 1
                 /\ LET new == UserOf(users, id)
                    IN  /\ new.name = (IF Missing(out.req.body.name) THEN old.name
                                       ELSE out.req.body.name.s)
                        /\ new.email = (IF Missing(out.req.body.email) THEN old.email
                                        ELSE out.req.body.email.s)
                        /\ out.data = <<new>>
            ELSE DB = before

RenamedWithoutEmail ==
    /\ PutStoredUser
    /\ out.status = 200
    /\ out.req.body.email = Undefined
    /\ UserOf(before.users, parseInt(out.req.param).n).name # out.req.body.name.s

\* C18: every write changes one row and nothing else.  A create adds one row
\* under a new id; an update changes, and deleteMessage removes, only the row
\* of the addressed id; deleteUser removes the addressed user and exactly the
\* messages whose user_id is that user; every other row of both tables is as
\* it was, and a read or a failed request changes nothing.
OneRowOnly ==
    out # NoResponse =>
        LET id == parseInt(out.req.param).n
        IN  IF out.status >= 400 THEN DB = before
            ELSE
            CASE out.req.route = "POST /users" ->
                    /\ \E u \in users :
                          /\ u.id \notin UserIds(before.users)
                          /\ users = before.users \cup {u}
                    /\ messages = before.messages
              [] out.req.route = "PUT /users/:id" ->
                    /\ {u \in users : u.id # id} = {u \in before.users : u.id # id}
                    /\ UserIds(users) = UserIds(before.users)
                    /\ Cardinality(users) = Cardinality(before.users)
                    /\ messages = before.messages
              [] out.req.route = "DELETE /users/:id" ->
                    /\ id \in UserIds(before.users)
                    /\ users = {u \in before.users : u.id # id}
                    /\ messages = {m \in before.messages : m.user_id # id}
              [] out.req.route = "POST /messages" ->
                    /\ \E m \in messages :
                          /\ m.id \notin MessageIds(before.messages)
                          /\ messages = before.messages \cup {m}
                    /\ users = before.users
              [] out.req.route = "PUT /messages/:id" ->
                    /\ {m \in messages : m.id # id} = {m \in before.messages : m.id # id}
                    /\ MessageIds(messages) = MessageIds(before.messages)
                    /\ Cardinality(messages) = Cardinality(before.messages)
                    /\ users = before.users
              [] out.req.route = "DELETE /messages/:id" ->
                    /\ id \in MessageIds(before.messages)
                    /\ messages = {m \in before.messages : m.id # id}
                    /\ users = before.users
              [] OTHER -> DB = before

UpdatedOneOfTwoMessages ==
    /\ Answered("PUT /messages/:id")
    /\ out.status = 200
    /\ Cardinality(messages) = 2
    /\ messages # before.messages

\* C19: in every reachable state every stored user has a non-empty name and
\* a non-empty email, and every stored message a non-empty content.
NonEmptyFields ==
    /\ \A u \in users : u.name # "" /\ u.email # ""
    /\ \A m \in messages : m.content # ""

\* a PUT /users/:id that carried an empty name next to an email succeeded
PutWithEmptyNameSucceeded ==
    /\ PutStoredUser
    /\ out.status = 200
    /\ out.req.body.name = Str("")

\* C20: ids are assigned by the system, unique and increasing: a successful
\* createUser returns an id greater than every id assigned before it, so the
\* id of a deleted user is not assigned again; the same for messages.
IdsNeverReused ==
    /\ UserIds(users) \subseteq 1..userSeq
    /\ MessageIds(messages) \subseteq 1..messageSeq
    /\ \A u1 \in users : \A u2 \in users : u1.id = u2.id => u1 = u2
    /\ \A m1 \in messages : \A m2 \in messages : m1.id = m2.id => m1 = m2
    /\ out # NoResponse =>
          /\ userSeq >= before.userSeq
          /\ messageSeq >= before.messageSeq
    /\ ( Answered("POST /users") /\ out.status = 201 ) =>
          /\ out.data[1].id > before.userSeq
          /\ \A u \in before.users : out.data[1].id > u.id
          /\ userSeq = out.data[1].id
    /\ ( Answered("POST /messages") /\ out.status = 201 ) =>
          /\ out.data[1].id > before.messageSeq
          /\ \A m \in before.messages : out.data[1].id > m.id
          /\ messageSeq = out.data[1].id

\* a user is created after the user with the latest id was deleted
CreatedAfterLatestDeleted ==
    /\ Answered("POST /users")
    /\ out.status = 201
    /\ before.userSeq >= 1
    /\ before.userSeq \notin UserIds(before.users)

\* the rows of the addressed table that the last step wrote: the row a
\* successful POST or PUT returned
Written ==
    IF out # NoResponse /\ out.status < 400
       /\ out.req.route \in {"POST /users", "PUT /users/:id",
                             "POST /messages", "PUT /messages/:id"}
    THEN {out.data[1]}
    ELSE {}

\* C21: with the clock never going back, every stored row has
\* updated_at >= created_at, a row keeps its created_at as long as it is
\* stored, a created row has both stamps at the clock value of its creation,
\* and a successful update sets updated_at to the clock value of the update.
TimestampsMonotonic ==
    /\ \A u \in users : u.created_at <= u.updated_at /\ u.updated_at <= now
    /\ \A m \in messages : m.created_at <= m.updated_at /\ m.updated_at <= now
    /\ out # NoResponse =>
          /\ \A u \in users : \A o \in before.users :
                u.id = o.id => u.created_at = o.created_at
          /\ \A m \in messages : \A o \in before.messages :
                m.id = o.id => m.created_at = o.created_at
          /\ \A w \in Written : w.updated_at = now
          /\ \A w \in Written :
                out.req.route \in {"POST /users", "POST /messages"} => w.created_at = now

\* a user created at an earlier clock value has just been updated
UpdatedLaterThanCreated ==
    /\ Answered("PUT /users/:id")
    /\ out.status = 200
    /\ out.data[1].created_at < out.data[1].updated_at
    /\ out.data[1] \in users

\* C22: GET /users answers 200 with every stored user exactly once, in
\* strictly ascending order of id, leaving nothing out, and changes nothing.
GetUsersAllAscending ==
    Answered("GET /users") =>
        /\ out.status = 200
        /\ out.key = "users"
        /\ {out.data[i] : i \in DOMAIN out.data} = users
        /\ Len(out.data) = Cardinality(users)
        /\ \A i \in DOMAIN out.data : \A j \in DOMAIN out.data :
              i < j => out.data[i].id < out.data[j].id
        /\ DB = before

ListedTwoUsers ==
    /\ Answered("GET /users")
    /\ Len(out.data) = 2

\* the last response is 200 and lists exactly the messages ms, each once and
\* joined with its stored owner, a message created later never after one
\* created earlier, and the store is as it was
ListsExactly(ms) ==
    /\ out.status = 200
    /\ out.key = "messages"
    /\ {out.data[i] : i \in DOMAIN out.data} = {WithUser(m, users) : m \in ms}
    /\ Len(out.data) = Cardinality(ms)
    /\ \A i \in DOMAIN out.data : \A j \in DOMAIN out.data :
          i < j => out.data[i].created_at >= out.data[j].created_at
    /\ \A i \in DOMAIN out.data :
          out.data[i].user \in users /\ out.data[i].user.id = out.data[i].user_id
    /\ DB = before

\* the path value is the decimal literal of k
Denotes(param, k) ==
    /\ \A i \in DOMAIN param : IsDigit(param[i])
    /\ parseInt(param) = Num(k)

\* C23: GET /messages lists every stored message exactly once, by descending
\* creation time, each joined with its owning user; GET /messages/user/:user_id
\* lists, in the same order, exactly the stored messages whose user_id is the
\* path value.
MessageListsByCreatedDesc ==
    /\ Answered("GET /messages") => ListsExactly(messages)
    /\ Answered("GET /messages/user/:user_id") =>
          ListsExactly({m \in messages : Denotes(out.req.param, m.user_id)})

\* What holds of the two lists: the same, for a path value that parseInt
\* turns into an integer, with that integer in place of the path value.
MessageListsOfParsedId ==
    /\ Answered("GET /messages") => ListsExactly(messages)
    /\ ( Answered("GET /messages/user/:user_id") /\ IsInt(parseInt(out.req.param)) ) =>
          ListsExactly({m \in messages : m.user_id = parseInt(out.req.param).n})

\* no stored user other than the addressed one holds the email of the request
\* that r answers
EmailFree(r) ==
    \A u \in users :
        u.id # parseInt(r.req.param).n => Str(u.email) # r.req.body.email

ConflictingPutIsAtomic ==
    ( Answered("PUT /users/:id") /\ out.status = 409 ) =>
        /\ out.error = "Email already exists"
        /\ DB = before
        /\ \E u \in users :
              /\ u.id = parseInt(out.req.param).n
              /\ u \in before.users

ConflictCarriedNewName ==
    /\ Answered("PUT /users/:id")
    /\ out.status = 409
    /\ out.req.body.name.t = "string"
    /\ out.req.body.name.s # UserOf(before.users, parseInt(out.req.param).n).name

\* the last step answered a PUT whose parsed body has nothing the route
\* requires
PutFailingPresence ==
    /\ out # NoResponse
    /\ out.req.body.parsed
    /\ \/ /\ out.req.route = "PUT /users/:id"
          /\ Missing(out.req.body.name)
          /\ Missing(out.req.body.email)
       \/ /\ out.req.route = "PUT /messages/:id"
          /\ Missing(out.req.body.content)

\* C26: a PUT /users/:id or PUT /messages/:id whose body fails the presence
\* check answers 400 whatever the id, stored or not, never 404; no repository
\* call is made and the store is as it was.
ValidationBeforeLookup ==
    PutFailingPresence =>
        /\ out.status = 400
        /\ Begin(out.req).answer
        /\ Begin(out.req).call = NoCall
        /\ DB = before

InvalidPutOfUnstoredId ==
    /\ PutFailingPresence
    /\ out.status = 400
    /\ IF out.req.route = "PUT /users/:id"
       THEN parseInt(out.req.param).n \notin UserIds(users)
       ELSE parseInt(out.req.param).n \notin MessageIds(messages)
    /\ users # {}

\* C27: a message keeps its id and its user_id as long as it is stored,
\* whatever the request, and a successful PUT /messages/:id changes only the
\* content and updated_at of the addressed message.
OwnershipImmutable ==
    out # NoResponse =>
        /\ \A m \in messages : \A o \in before.messages :
              m.id = o.id => m.user_id = o.user_id
        /\ ( out.req.route = "PUT /messages/:id" /\ out.status = 200 ) =>
              LET id == parseInt(out.req.param).n
                  old == MessageOf(before.messages, id)
              IN  /\ id \in MessageIds(before.messages)
                  /\ messages = (before.messages \ {old}) \cup
                        {[old EXCEPT !.content = out.req.body.content.s,
                                     !.updated_at = now]}
                  /\ out.data[1].id = id
                  /\ out.data[1].user_id = old.user_id

\* the content of a message whose id is not its owner's id was changed
ChangedContentOfOwnedMessage ==
    /\ Answered("PUT /messages/:id")
    /\ out.status = 200
    /\ out.data[1].user_id # out.data[1].id
    /\ out.data[1].content # MessageOf(before.messages, out.data[1].id).content

\* C28: a PUT /users/:id on a stored user answers 409 exactly when a stored
\* user other than the addressed one has the email the body supplies, and
\* 200 otherwise, in particular when the email is the addressed user's own.
OwnEmailIsNoConflict ==
    PutStoredUser =>
        LET id == parseInt(out.req.param).n
            taken == \E u \in before.users :
                        u.id # id /\ Str(u.email) = out.req.body.email
        IN  /\ out.status = (IF taken THEN 409 ELSE 200)
            /\ out.status = 200 /\ ~Missing(out.req.body.email) =>
                  UserOf(users, id).email = out.req.body.email.s

PutOwnEmailAmongOthers ==
    /\ PutStoredUser
    /\ out.status = 200
    /\ Str(UserOf(before.users, parseInt(out.req.param).n).email) = out.req.body.email
    /\ Cardinality(users) = 2

\* the last step answered a GET /messages/user/:user_id whose path value is
\* an integer literal that is the id of no stored user
ListOfUnstoredUser ==
    /\ Answered("GET /messages/user/:user_id")
    /\ \A i \in DOMAIN out.req.param : IsDigit(out.req.param[i])
    /\ parseInt(out.req.param).n \notin UserIds(before.users)

\* C29: GET /messages/user/:user_id for an integer user_id that no stored
\* user has answers 200 with an empty list of messages, not 404, also when a
\* user had that id and was deleted.
UnstoredUserHasNoMessages ==
    ListOfUnstoredUser =>
        /\ out.status = 200
        /\ out.key = "messages"
        /\ out.data = NoRows
        /\ out.error = ""
        /\ DB = before

\* the user was stored once, and a message was created before the user was
\* deleted
ListOfDeletedUser ==
    /\ ListOfUnstoredUser
    /\ out.status = 200
    /\ parseInt(out.req.param).n \in 1..userSeq
    /\ messageSeq >= 1
    /\ messages = {}

\* C30: a notification stays on display until the timer of the showMessage
\* call that set it fires: a timer clears only the notification of its own
\* call, never one set by a later call, and while the timer of the latest call
\* has not fired the notification of that call is on display.
ClearedByOwnTimer ==
    /\ cleared.shown # 0 => cleared.timer = cleared.shown
    /\ \A t \in timers : t.call = calls => shown = calls /\ message # ""

\* C30, second half: every notification is cleared in the end.
EveryNoticeCleared == (message # "") ~> (message = "")

\* What the timers do guarantee: a notification is on display only while a
\* timer is pending, and no longer than 3 seconds after the call that set it.
NoticeHasPendingTimer ==
    message # "" =>
        /\ shown = calls
        /\ \E t \in timers : t.call = shown /\ elapsed <= t.at
====
